---- MODULE Spec2Model ----
(***************************************************************************)
(* Model of scripts/generator/cpp/gmock_class.py: the Google Mock class    *)
(* generator with the partial-mock extension.                              *)
(*                                                                         *)
(* Text is modelled as a sequence of string pieces: Python's string        *)
(* concatenation is \o, a format string is the sequence of its literal and *)
(* substituted pieces.  The output buffer "lines" is a sequence of such    *)
(* texts.  The AST nodes are the records the external parser (cpp.ast)     *)
(* hands to this script.                                                   *)
(***************************************************************************)
EXTENDS Integers, Sequences, FiniteSets, TLC

\* ---------------------------------------------------------------- bounds
MaxNodes == 2
MaxBody == 2

\* ------------------------------------------------------------------- state
VARIABLES
  pc,                     \* position in the script
  _PARTIAL,               \* the global _PARTIAL (options.partial)
  _INDENT,                \* the global _INDENT
  environ,                \* os.environ.get('INDENT'): <<>> when unset, else <<value>>
  lazy_filter,            \* the interpreter's filter(): TRUE when it returns an
                          \* iterator (Python 3), FALSE when a list (Python 2)
  args,                   \* parsed_args: argv[1:] without the options
  source,                 \* utils.ReadFile's result: "unset", "None", "text"
  ast_list,               \* entire_ast: the list filter() built, or the nodes
                          \* its iterator has yielded so far
  desired_class_names,    \* {} stands for None
  i,                      \* position of the loop of line 170 in ast_list
  lines, oncall_methods, ctors, dtors, processed_class_names,
  stderr, stdout,         \* sequences of the texts written
  ret                     \* how the run ended: main's return value or the
                          \* exception that left it

\* ------------------------------------------------------ program constants
linesep == "\n"

FUNCTION_CONST == "FUNCTION_CONST"
FUNCTION_VIRTUAL == "FUNCTION_VIRTUAL"
FUNCTION_PURE_VIRTUAL == "FUNCTION_PURE_VIRTUAL"
FUNCTION_CTOR == "FUNCTION_CTOR"
FUNCTION_DTOR == "FUNCTION_DTOR"

function_type == {FUNCTION_VIRTUAL, FUNCTION_PURE_VIRTUAL}
ctor_or_dtor == {FUNCTION_CTOR, FUNCTION_DTOR}

\* ------------------------------------------------------------ text helpers
\* ' ' * n
Spaces(n) == [k \in 1..n |-> " "]

indent == Spaces(_INDENT)

\* '%d' % k
Str(k) == <<"0", "1", "2", "3", "4", "5", "6", "7", "8", "9">>[k + 1]

\* sep.join(parts), parts a sequence of texts
RECURSIVE Join(_, _)
Join(parts, sep) ==
  IF parts = <<>> THEN <<>>
  ELSE IF Len(parts) = 1 THEN parts[1]
  ELSE parts[1] \o sep \o Join(Tail(parts), sep)

\* a sequence of strings as a sequence of one-piece texts
Texts(strs) == [k \in 1..Len(strs) |-> <<strs[k]>>]

\* ------------------------------------------------------------- _CreateArgs
\* source[start:end]: from the start of the first parameter to the end of
\* the last one.  Consecutive parameters are separated in the header by a
\* comma, a // comment, a newline and the next line's indentation.
ParamSeparator == <<",", " ", "//", "note", "\n", " ", " ">>

ParamText(p) == <<p.type, " ", p.name>>

SourceSpan(node) ==
  Join([k \in 1..Len(node.parameters) |-> ParamText(node.parameters[k])],
       ParamSeparator)

\* re.sub(r'//.*', '', s): drop from // up to, not including, the newline
RECURSIVE RemoveComments(_, _)
RemoveComments(toks, inComment) ==
  IF toks = <<>> THEN <<>>
  ELSE IF Head(toks) = "\n" THEN <<"\n">> \o RemoveComments(Tail(toks), FALSE)
  ELSE IF inComment \/ Head(toks) = "//" THEN RemoveComments(Tail(toks), TRUE)
  ELSE <<Head(toks)>> \o RemoveComments(Tail(toks), FALSE)

\* s.replace('\n', ' ')
ReplaceNewlines(toks) ==
  [k \in 1..Len(toks) |-> IF toks[k] = "\n" THEN " " ELSE toks[k]]

\* re.sub('  +', ' ', s): a run of two or more spaces becomes one space
RECURSIVE CollapseSpaces(_)
CollapseSpaces(toks) ==
  IF Len(toks) < 2 THEN toks
  ELSE IF toks[1] = " " /\ toks[2] = " " THEN CollapseSpaces(Tail(toks))
  ELSE <<toks[1]>> \o CollapseSpaces(Tail(toks))

CreateArgs(node) ==
  IF node.parameters # <<>>
    THEN CollapseSpaces(ReplaceNewlines(RemoveComments(SourceSpan(node), FALSE)))
    ELSE <<>>

CreateArgsNames(node) ==
  [k \in 1..Len(node.parameters) |-> node.parameters[k].name]

\* -------------------------------------------------------- _GenerateMethods
\* node.return_type is <<>> when absent (None), else <<descriptor>>.
HasReturnType(node) == node.return_type # <<>>

\* isinstance(node, ast.Function) and node.modifiers & function_type and
\* not node.modifiers & ctor_or_dtor
IsMockable(node) ==
  /\ node.kind = "Function"
  /\ node.modifiers \cap function_type # {}
  /\ node.modifiers \cap ctor_or_dtor = {}

\* faulty variant of ConstPrefix: constness of the return type
ConstPrefixFromReturnType(node) ==
  IF /\ node.return_type # <<>>
     /\ \E k \in 1..Len(node.return_type[1].modifiers) :
          node.return_type[1].modifiers[k] = "const"
    THEN "CONST_" ELSE ""

\* const = 'CONST_' if node.modifiers & ast.FUNCTION_CONST else ''
ConstPrefix(node) ==
  IF FUNCTION_CONST \in node.modifiers THEN "CONST_" ELSE ""

\* 'MOCK_%sMETHOD%d' % (const, len(node.parameters))
MockMethodMacro(node) ==
  <<"MOCK_", ConstPrefix(node), "METHOD", Str(Len(node.parameters))>>

\* len(template_args) > 1
WarningNeeded(template_args) == Len(template_args) > 1

WarningComment ==
  << <<"// The following line won't really compile, as the return">>,
     <<"// type has multiple template arguments.  To fix it, use a">>,
     <<"// typedef for the return type.">> >>

\* the return_type string built in lines 95-114
ReturnTypeText(node) ==
  IF ~HasReturnType(node) THEN <<"void">>
  ELSE
    LET rt == node.return_type[1]
        modifiers == IF rt.modifiers # <<>>
                       THEN Join(Texts(rt.modifiers), <<" ">>) \o <<" ">>
                       ELSE <<>>
        templ == IF rt.templated_types # <<>>
                   THEN <<"<">> \o Join(Texts(rt.templated_types), <<", ">>) \o <<">">>
                   ELSE <<>>
    IN  modifiers \o <<rt.name>> \o templ
          \o (IF rt.pointer THEN <<"*">> ELSE <<>>)
          \o (IF rt.reference THEN <<"&">> ELSE <<>>)

\* the warning lines appended at line 110 while the return type is rendered
ReturnTypeWarning(node) ==
  IF HasReturnType(node) /\ WarningNeeded(node.return_type[1].templated_types)
    THEN [k \in 1..Len(WarningComment) |-> indent \o WarningComment[k]]
    ELSE <<>>

\* the two lines of lines 137-138
MockMethodLines(node) ==
  << indent \o MockMethodMacro(node) \o <<"(", node.name, ",">>,
     indent \o indent \o indent \o ReturnTypeText(node)
       \o <<"(">> \o CreateArgs(node) \o <<"));">> >>

\* line 129
ParentMethodDefinition(node, class_node) ==
  ReturnTypeText(node) \o <<" ", "Parent", node.name, "(">> \o CreateArgs(node)
    \o <<") { ">>
    \o (IF node.return_type[1].name # "void" THEN <<"return ">> ELSE <<>>)
    \o <<class_node.name, "::", node.name, "(">>
    \o Join(Texts(CreateArgsNames(node)), <<", ">>) \o <<"); }">>

\* ('_, ' * n)[0:-2]
Underscores(n) == Join([k \in 1..n |-> <<"_">>], <<", ">>)

\* lines 133-134
OnCallMethod(node, full_class_name) ==
  indent \o indent
    \o <<"ON_CALL(*this, ", node.name, "(">>
    \o Underscores(Len(CreateArgsNames(node)))
    \o <<")).WillByDefault(Invoke(this, &">> \o full_class_name
    \o <<"::", "Parent", node.name, "));">>

\* lines 143-148
CtorText(node, class_node, full_class_name) ==
  indent \o full_class_name \o <<"(">> \o CreateArgs(node) \o <<") :", linesep>>
    \o indent \o indent \o <<class_node.name, "(">>
    \o Join(Texts(CreateArgsNames(node)), <<", ">>) \o <<") {", linesep>>
    \o indent \o indent \o <<"delegateMethodCallsToParent();", linesep>>
    \o indent \o <<"}">>

\* line 153
DtorText(full_class_name) ==
  indent \o <<"virtual ~">> \o full_class_name \o <<"() {}">>

\* One iteration of the loop of line 86.  st carries the four lists passed
\* in by reference, the local parent_method_definitions and whether an
\* exception has been raised; once raised nothing more is executed.
MethodStep(st, node, class_node, full_class_name, partial) ==
  IF st.raised THEN st
  ELSE
    LET mock == IsMockable(node)
        \* line 110: warning comment
        s1 == IF mock
                THEN [st EXCEPT !.output_lines = @ \o ReturnTypeWarning(node)]
                ELSE st
        \* line 127: node.return_type.name with return_type None
        raise1 == mock /\ partial /\ ~HasReturnType(node)
        s2 == IF mock /\ partial /\ ~raise1
                THEN [s1 EXCEPT
                        !.parent_method_definitions =
                            Append(@, ParentMethodDefinition(node, class_node)),
                        !.oncall_methods =
                            Append(@, OnCallMethod(node, full_class_name))]
                ELSE s1
        s3 == IF mock
                THEN [s2 EXCEPT !.output_lines = @ \o MockMethodLines(node)]
                ELSE s2
        \* line 142: node.modifiers on a node that is no ast.Function
        raise2 == partial /\ node.kind # "Function"
        s4 == IF partial /\ ~raise2 /\ FUNCTION_CTOR \in node.modifiers
                THEN [s3 EXCEPT !.ctors =
                        Append(@, CtorText(node, class_node, full_class_name))]
                ELSE s3
        s5 == IF /\ partial /\ ~raise2
                 /\ node.modifiers \cap function_type # {}
                 /\ FUNCTION_DTOR \in node.modifiers
                THEN [s4 EXCEPT !.dtors = Append(@, DtorText(full_class_name))]
                ELSE s4
    IN  IF raise1 THEN [s1 EXCEPT !.raised = TRUE]
        ELSE IF raise2 THEN [s3 EXCEPT !.raised = TRUE]
        ELSE s5

RECURSIVE MethodLoop(_, _, _, _, _)
MethodLoop(st, body, class_node, full_class_name, partial) ==
  IF body = <<>> THEN st
  ELSE MethodLoop(MethodStep(st, Head(body), class_node, full_class_name, partial),
                  Tail(body), class_node, full_class_name, partial)

\* _GenerateMethods(output_lines, oncall_methods, ctors, dtors, source,
\*                  class_node, full_class_name), reading the global _PARTIAL.
\* The result holds the four lists as the call leaves them and "raised".
GenerateMethods(output_lines, oncalls, cs, ds, class_node, full_class_name, partial) ==
  LET st0 == [output_lines |-> output_lines, oncall_methods |-> oncalls,
              ctors |-> cs, dtors |-> ds,
              parent_method_definitions |-> <<>>, raised |-> FALSE]
      st == MethodLoop(st0, class_node.body, class_node, full_class_name, partial)
  IN  IF partial /\ ~st.raised
        THEN [st EXCEPT !.output_lines =
                @ \o << <<>> >>
                  \o [k \in 1..Len(st.parent_method_definitions) |->
                        indent \o st.parent_method_definitions[k]]]
        ELSE st

\* ---------------------------------------------------------- _GenerateMocks
\* faulty variant of Selected: without "node.body"
SelectedIgnoringBody(node, desired) ==
  /\ node.kind = "Class"
  /\ (desired = {} \/ node.name \in desired)

\* isinstance(node, ast.Class) and node.body and
\* (not desired_class_names or node.name in desired_class_names)
Selected(node, desired) ==
  /\ node.kind = "Class"
  /\ node.body # <<>>
  /\ (desired = {} \/ node.name \in desired)

\* lines 176-179
FullClassName(class_name, partial) ==
  IF partial THEN <<"PartialMock", class_name>> ELSE <<"Mock", class_name>>

\* lines 183-185
NamespaceOpen(namespace) ==
  IF namespace # <<>>
    THEN [k \in 1..Len(namespace) |-> <<"namespace ", namespace[k], " {">>]
           \o << <<>> >>
    ELSE <<>>

\* faulty variant of NamespaceClose: closing lines in path order
NamespaceCloseInPathOrder(namespace) ==
  IF namespace # <<>>
    THEN [k \in 1..Len(namespace) |-> <<"}  // namespace ", namespace[k]>>]
           \o << <<>> >>
    ELSE <<>>

\* lines 222-225
NamespaceClose(namespace) ==
  IF namespace # <<>>
    THEN [k \in 1..Len(namespace) |->
            <<"}  // namespace ", namespace[Len(namespace) + 1 - k]>>]
           \o << <<>> >>
    ELSE <<>>

\* line 188
ClassProlog(full_class_name, class_name) ==
  <<"class ">> \o full_class_name \o <<" : public ", class_name, " {">>

\* line 189
PublicLabel == Spaces(_INDENT \div 2) \o <<"public:">>

\* lines 201-204
DefaultMockConstructor(oncalls) ==
  <<linesep>> \o indent \o <<"void delegateMethodCallsToParent() {", linesep>>
    \o Join(oncalls, <<linesep>>)
    \o <<linesep>> \o indent \o <<"}">>

\* lines 195-219, applied to the buffer _GenerateMethods left
CloseClass(ls, oncalls, cs, ds, partial) ==
  IF ls # <<>>
    THEN (IF Len(ls) = 2 THEN SubSeq(ls, 1, Len(ls) - 1)
          ELSE IF partial THEN Append(ls, DefaultMockConstructor(oncalls))
          ELSE ls)
         \o << <<linesep>>,
               Join(cs, <<linesep, linesep>>),
               <<linesep>>,
               Join(ds, <<linesep, linesep>>),
               <<"};">>,
               <<>> >>
    ELSE ls

\* sorted(list(names)); class names are ordered as Python orders the strings
NameOrder == <<"A", "B", "Y", "Z">>

SortedList(names) == SelectSeq(NameOrder, LAMBDA n : n \in names)

\* faulty variant of MissingClassNames: every requested name
AllDesiredNames(desired, processed) == SortedList(desired)

\* line 228
MissingClassNames(desired, processed) == SortedList(desired \ processed)

\* lines 227-234: what is written to stderr after the loop
Diagnostics(filename, desired, processed) ==
  IF desired # {}
    THEN IF MissingClassNames(desired, processed) # <<>>
           THEN << <<"Class(es) not found in ", filename, ": ">>
                     \o Join(Texts(MissingClassNames(desired, processed)), <<", ">>)
                     \o <<"\n">> >>
           ELSE <<>>
    ELSE IF processed = {}
           THEN << <<"No class found in ", filename, "\n">> >>
           ELSE <<>>

\* ------------------------------------------------------------------ inputs
\* The nodes cpp.ast yields.  A class member is an ast.Function (name,
\* modifiers, return_type, parameters) or another declaration, which has no
\* modifiers attribute; the record keeps the fields only to stay uniform and
\* the model reads them only behind the checks the code makes.
ParamNames == <<"a", "b", "c", "d">>

Params(n) == [k \in 1..n |-> [name |-> ParamNames[k], type |-> "int"]]

Function(name, return_type, parameters, modifiers) ==
  [kind |-> "Function", name |-> name, modifiers |-> modifiers,
   return_type |-> return_type, parameters |-> parameters]

VariableDeclaration ==
  [kind |-> "VariableDeclaration", name |-> "field", modifiers |-> {},
   return_type |-> <<>>, parameters |-> <<>>]

Type(name, modifiers, templated_types, pointer, reference) ==
  [name |-> name, modifiers |-> modifiers, templated_types |-> templated_types,
   pointer |-> pointer, reference |-> reference]

Void == <<Type("void", <<>>, <<>>, FALSE, FALSE)>>
ConstRetPtr == <<Type("Ret", <<"const">>, <<"T">>, TRUE, FALSE)>>
MapRef == <<Type("Map", <<>>, <<"K", "V">>, FALSE, TRUE)>>

\* the signatures of the methods: return type (absent, void, const Ret<T>*,
\* Map<K, V>&) and parameter list
Signatures ==
  { <<<<>>, <<>>>>, <<Void, Params(1)>>,
    <<ConstRetPtr, Params(2)>>, <<MapRef, <<>>>>, <<MapRef, Params(3)>> }

MethodModifiers ==
  { {}, {FUNCTION_VIRTUAL}, {FUNCTION_PURE_VIRTUAL},
    {FUNCTION_VIRTUAL, FUNCTION_CONST} }

MethodName(modifiers) ==
  IF modifiers = {} THEN "plain"
  ELSE IF modifiers = {FUNCTION_VIRTUAL} THEN "virt"
  ELSE IF modifiers = {FUNCTION_PURE_VIRTUAL} THEN "pure"
  ELSE "virtc"

Ctor(n) == Function("A", <<>>, Params(n), {FUNCTION_CTOR})

Dtor(modifiers) == Function("~A", <<>>, <<>>, modifiers \cup {FUNCTION_DTOR})

\* the members a class body of the _GenerateMethods runs is drawn from
Members ==
  { Function(MethodName(m), sig[1], sig[2], m) :
      m \in MethodModifiers, sig \in Signatures }
    \cup { Ctor(0), Ctor(1) }
    \cup { Dtor({}), Dtor({FUNCTION_VIRTUAL}) }
    \cup { VariableDeclaration }

SeqsUpTo(S, n) == UNION { [1..k -> S] : k \in 0..n }

Class(name, namespace, body) ==
  [kind |-> "Class", name |-> name, namespace |-> namespace, body |-> body]

\* a top-level declaration that is no class
FreeFunction ==
  [kind |-> "Function", name |-> "free", namespace |-> <<>>, body |-> <<>>]

\* the class bodies of the whole-program runs: a forward declaration, a
\* class without virtual methods, one virtual method, constructor +
\* const virtual method + virtual destructor, a data member before a method
ClassBodies ==
  { <<>>,
    <<Ctor(1), Function("plain", Void, <<>>, {})>>,
    <<Function("virt", Void, Params(1), {FUNCTION_VIRTUAL})>>,
    <<Ctor(0),
      Function("pure", MapRef, <<>>, {FUNCTION_PURE_VIRTUAL, FUNCTION_CONST}),
      Dtor({FUNCTION_VIRTUAL})>>,
    <<VariableDeclaration,
      Function("virt", Void, Params(1), {FUNCTION_VIRTUAL})>> }

ClassHeads ==
  { <<"A", <<>>>>, <<"B", <<"n1", "n2">>>> }

TopNodes ==
  { Class(h[1], h[2], b) : h \in ClassHeads, b \in ClassBodies }
    \cup { FreeFunction }

\* the command line after the options: the header and the class names
ArgLists ==
  { <<>>, <<"file.h">>, <<"file.h", "A">>, <<"file.h", "A", "Z">>,
    <<"file.h", "Z", "B">> }

\* ---------------------------------------------------------- the state tuple
vars == <<pc, _PARTIAL, _INDENT, environ, lazy_filter, args, source, ast_list,
          desired_class_names, i, lines, oncall_methods, ctors, dtors,
          processed_class_names, stderr, stdout, ret>>

locals == <<lines, oncall_methods, ctors, dtors, processed_class_names>>

\* what never changes after the start: the command line, the environment
\* and the interpreter
inputs == <<_PARTIAL, environ, lazy_filter, args>>

InitLocals ==
  /\ source = "unset"
  /\ desired_class_names = {}
  /\ i = 1
  /\ lines = <<>>
  /\ oncall_methods = <<>>
  /\ ctors = <<>>
  /\ dtors = <<>>
  /\ processed_class_names = {}
  /\ stderr = <<>>
  /\ stdout = <<>>
  /\ ret = "running"

\* the values of the INDENT environment variable
EnvValues == { <<>>, <<"0">>, <<"4">>, <<"bad">> }

\* line 56: _INDENT = 2 when the module is loaded
Init ==
  /\ pc = "entry"
  /\ _PARTIAL \in BOOLEAN
  /\ _INDENT = 2
  /\ environ \in EnvValues
  /\ lazy_filter \in BOOLEAN
  /\ args \in ArgLists
  /\ ast_list = <<>>
  /\ InitLocals

\* ------------------------------------------------------------------- main
\* line 293: main(sys.argv) calls the parameterless main with an argument
ScriptEntry ==
  /\ pc = "entry"
  /\ pc' = "raised"
  /\ ret' = "TypeError"
  /\ UNCHANGED <<inputs, _INDENT, source, ast_list, desired_class_names, i,
                 locals, stderr, stdout>>

\* main() called as a function: the options are parsed, _PARTIAL is set
CallMain ==
  /\ pc = "entry"
  /\ pc' = "main"
  /\ UNCHANGED <<inputs, _INDENT, source, ast_list, desired_class_names, i,
                 locals, stderr, stdout, ret>>

\* lines 241-246 and 261: what parser.print_help() writes (optparse, 80
\* columns): 'Usage: ' + usage, then the option list
HelpText ==
  << "Usage: ",
     "\nGoogle Mock Class Generator v", "1", ".", "0", ".", "1", "\n\n",
     "Generate Google Mock classes from base classes.\n",
     "\n",
     "This program will read in a C++ source file and output the Google Mock\n",
     "classes for the specified classes.  If no class is specified, all\n",
     "classes in the source file are emitted.\n",
     "\n",
     "Usage:\n",
     "  gmock_class.py [--partial | -p] header-file.h [ClassName]...\n",
     "\n",
     "Output is sent to stdout.",
     "\n",
     "\n",
     "Options:\n",
     "  -h, --help     show this help message and exit\n",
     "  -p, --partial  Generate a partial mock instead of just a mock (*NOTE*\n",
     "                 methods with unnamed parameters are unsupported and will\n",
     "                 cause problems.\n" >>

\* lines 260-262: no header on the command line
Usage ==
  /\ pc = "main"
  /\ Len(args) < 1
  /\ stdout' = Append(stdout, HelpText)
  /\ ret' = "1"
  /\ pc' = "done"
  /\ UNCHANGED <<inputs, _INDENT, source, ast_list, desired_class_names, i,
                 locals, stderr>>

\* int(s) for the values of the environment variable; <<>> is ValueError
ParseInt(s) ==
  IF s = "0" THEN <<0>> ELSE IF s = "4" THEN <<4>> ELSE <<>>

\* lines 264-268: os.environ['INDENT'] raises KeyError
IndentUnset ==
  /\ pc = "main"
  /\ Len(args) >= 1
  /\ environ = <<>>
  /\ pc' = "read"
  /\ UNCHANGED <<inputs, _INDENT, source, ast_list, desired_class_names, i,
                 locals, stderr, stdout, ret>>

\* lines 264-266: _INDENT = int(os.environ['INDENT'])
IndentSet ==
  /\ pc = "main"
  /\ Len(args) >= 1
  /\ environ # <<>>
  /\ ParseInt(environ[1]) # <<>>
  /\ _INDENT' = ParseInt(environ[1])[1]
  /\ pc' = "read"
  /\ UNCHANGED <<inputs, source, ast_list, desired_class_names, i, locals,
                 stderr, stdout, ret>>

\* lines 269-270: int() raises; the bare except reports the value
IndentInvalid ==
  /\ pc = "main"
  /\ Len(args) >= 1
  /\ environ # <<>>
  /\ ParseInt(environ[1]) = <<>>
  /\ stderr' = Append(stderr, <<"Unable to use indent of ", environ[1], "\n">>)
  /\ pc' = "read"
  /\ UNCHANGED <<inputs, _INDENT, source, ast_list, desired_class_names, i,
                 locals, stdout, ret>>

\* lines 273-275
DesiredClassNames(a) ==
  IF Len(a) >= 2 THEN {a[k] : k \in 2..Len(a)} ELSE {}

\* lines 272-278 with utils.ReadFile returning the source
ReadFileOk ==
  /\ pc = "read"
  /\ desired_class_names' = DesiredClassNames(args)
  /\ source' = "text"
  /\ pc' = "parse"
  /\ UNCHANGED <<inputs, _INDENT, ast_list, i, locals, stderr, stdout, ret>>

\* lines 272-278 with utils.ReadFile returning None
ReadFileFails ==
  /\ pc = "read"
  /\ desired_class_names' = DesiredClassNames(args)
  /\ source' = "None"
  /\ ret' = "1"
  /\ pc' = "done"
  /\ UNCHANGED <<inputs, _INDENT, ast_list, i, locals, stderr, stdout>>

\* line 166-168 and the start of the loop: _GenerateMocks begins with its
\* empty lists
EnterGenerateMocks ==
  /\ pc' = "loop"
  /\ i' = 1
  /\ lines' = <<>>
  /\ oncall_methods' = <<>>
  /\ ctors' = <<>>
  /\ dtors' = <<>>
  /\ processed_class_names' = {}

\* lines 280-282 and 288-289 when filter() builds a list: the parser runs
\* to its end inside the try block, and the else branch calls
\* _GenerateMocks on the list
ParseOk ==
  /\ pc = "parse"
  /\ ~lazy_filter
  /\ ast_list' \in SeqsUpTo(TopNodes, MaxNodes)
  /\ EnterGenerateMocks
  /\ UNCHANGED <<inputs, _INDENT, source, desired_class_names, stderr, stdout, ret>>

\* what the parser prints before it raises
ParserMessage == <<"parse error in ", "file.h">>

\* lines 281-282 and 285-287 when filter() builds a list: the parser has
\* printed its message and raises inside the try, the bare except passes,
\* _GenerateMocks is not called and main returns None
ParseRaises ==
  /\ pc = "parse"
  /\ ~lazy_filter
  /\ stderr' = Append(stderr, ParserMessage)
  /\ pc' = "done"
  /\ ret' = "None"
  /\ UNCHANGED <<inputs, _INDENT, source, ast_list, desired_class_names, i,
                 locals, stdout>>

\* lines 281-284 when filter() builds a list: KeyboardInterrupt inside the
\* try, main returns None
ParseInterrupted ==
  /\ pc = "parse"
  /\ ~lazy_filter
  /\ pc' = "done"
  /\ ret' = "None"
  /\ UNCHANGED <<inputs, _INDENT, source, ast_list, desired_class_names, i,
                 locals, stderr, stdout>>

\* lines 280-282 and 288-289 when filter() returns an iterator:
\* builder.Generate() is a generator, so the try block runs no parser code
\* and cannot raise; the else branch calls _GenerateMocks, and the parser
\* runs while the loop of line 170 asks for nodes
CallGenerateMocks ==
  /\ pc = "parse"
  /\ lazy_filter
  /\ ast_list' = <<>>
  /\ EnterGenerateMocks
  /\ UNCHANGED <<inputs, _INDENT, source, desired_class_names, stderr, stdout, ret>>

\* line 170: the loop receives its next node, the i-th of the list or the
\* one the parser yields now
NextNode(node) ==
  IF lazy_filter
    THEN /\ Len(ast_list) < MaxNodes
         /\ node \in TopNodes
         /\ ast_list' = Append(ast_list, node)
    ELSE /\ i <= Len(ast_list)
         /\ node = ast_list[i]
         /\ ast_list' = ast_list

\* line 170: the list is at its end, or the parser has no more nodes
NoMoreNodes == lazy_filter \/ i > Len(ast_list)

\* ------------------------------------------------- the loop of line 170
\* the class prolog of lines 183-189, appended before _GenerateMethods runs
ClassOpen(node, partial) ==
  NamespaceOpen(node.namespace)
    \o << ClassProlog(FullClassName(node.name, partial), node.name),
          PublicLabel >>

\* the call of line 192 on the node the parser yielded
MethodsResult(node) ==
  GenerateMethods(lines \o ClassOpen(node, _PARTIAL), oncall_methods,
                  ctors, dtors, node,
                  FullClassName(node.name, _PARTIAL), _PARTIAL)

\* the next node is one the condition of lines 171-173 rejects
SkipNode ==
  /\ pc = "loop"
  /\ \E node \in TopNodes :
       /\ NextNode(node)
       /\ ~Selected(node, desired_class_names)
  /\ i' = i + 1
  /\ UNCHANGED <<pc, inputs, _INDENT, source, desired_class_names, locals,
                 stderr, stdout, ret>>

\* the next node is a selected class: lines 174-225
ProcessClass ==
  /\ pc = "loop"
  /\ \E node \in TopNodes :
       /\ NextNode(node)
       /\ Selected(node, desired_class_names)
       /\ LET r == MethodsResult(node)
          IN  /\ ~r.raised
              /\ lines' = CloseClass(r.output_lines, r.oncall_methods, r.ctors,
                                     r.dtors, _PARTIAL)
                            \o NamespaceClose(node.namespace)
              /\ oncall_methods' = r.oncall_methods
              /\ ctors' = r.ctors
              /\ dtors' = r.dtors
       /\ processed_class_names' = processed_class_names \cup {node.name}
  /\ i' = i + 1
  /\ UNCHANGED <<pc, inputs, _INDENT, source, desired_class_names, stderr,
                 stdout, ret>>

\* an exception leaves _GenerateMocks and main: their lists are gone
LocalsLost ==
  /\ lines' = <<>>
  /\ oncall_methods' = <<>>
  /\ ctors' = <<>>
  /\ dtors' = <<>>
  /\ processed_class_names' = {}

\* lines 174-192 when _GenerateMethods raises AttributeError
ProcessClassRaises ==
  /\ pc = "loop"
  /\ \E node \in TopNodes :
       /\ NextNode(node)
       /\ Selected(node, desired_class_names)
       /\ MethodsResult(node).raised
  /\ pc' = "raised"
  /\ ret' = "AttributeError"
  /\ LocalsLost
  /\ UNCHANGED <<inputs, _INDENT, source, desired_class_names, i, stderr, stdout>>

\* line 170 when filter() returns an iterator: the parser, asked for the
\* next node, prints its message and raises; the loop is outside the try of
\* line 281
ParserRaises ==
  /\ pc = "loop"
  /\ lazy_filter
  /\ stderr' = Append(stderr, ParserMessage)
  /\ pc' = "raised"
  /\ ret' = "Exception"
  /\ LocalsLost
  /\ UNCHANGED <<inputs, _INDENT, source, ast_list, desired_class_names, i, stdout>>

\* line 170 when filter() returns an iterator: KeyboardInterrupt while the
\* parser runs
ParserInterrupted ==
  /\ pc = "loop"
  /\ lazy_filter
  /\ pc' = "raised"
  /\ ret' = "KeyboardInterrupt"
  /\ LocalsLost
  /\ UNCHANGED <<inputs, _INDENT, source, ast_list, desired_class_names, i,
                 stderr, stdout>>

\* the parser has no more nodes; lines 227-236: the diagnostics after the
\* loop, and the return of lines
ReportMissing ==
  /\ pc = "loop"
  /\ NoMoreNodes
  /\ stderr' = stderr \o Diagnostics(args[1], desired_class_names,
                                     processed_class_names)
  /\ pc' = "write"
  /\ UNCHANGED <<inputs, _INDENT, source, ast_list, desired_class_names, i,
                 locals, stdout, ret>>

\* line 290: sys.stdout.write('\n'.join(lines))
WriteOutput ==
  /\ pc = "write"
  /\ stdout' = Append(stdout, Join(lines, <<"\n">>))
  /\ pc' = "done"
  /\ ret' = "None"
  /\ UNCHANGED <<inputs, _INDENT, source, ast_list, desired_class_names, i,
                 locals, stderr>>

Next ==
  \/ ScriptEntry
  \/ CallMain
  \/ Usage
  \/ IndentUnset
  \/ IndentSet
  \/ IndentInvalid
  \/ ReadFileOk
  \/ ReadFileFails
  \/ ParseOk
  \/ ParseRaises
  \/ ParseInterrupted
  \/ CallGenerateMocks
  \/ SkipNode
  \/ ProcessClass
  \/ ProcessClassRaises
  \/ ParserRaises
  \/ ParserInterrupted
  \/ ReportMissing
  \/ WriteOutput

Spec == Init /\ [][Next]_vars

\* ------------------------------------------- _GenerateMethods on its own
\* One class A whose body is drawn from Members, and one call
\* _GenerateMethods(lines, oncall_methods, ctors, dtors, source, A, full)
\* with empty lists, in either mode, under an indentation main can set.
IndentValues == {0, 2, 4}

InitMethods ==
  /\ pc = "methods"
  /\ _PARTIAL \in BOOLEAN
  /\ _INDENT \in IndentValues
  /\ environ = <<>>
  /\ lazy_filter = FALSE
  /\ args = <<"file.h">>
  /\ InitLocals
  /\ ast_list \in { <<Class("A", <<>>, b)>> : b \in SeqsUpTo(Members, MaxBody) }

MethodsCall ==
  GenerateMethods(<<>>, <<>>, <<>>, <<>>, ast_list[1],
                  FullClassName(ast_list[1].name, _PARTIAL), _PARTIAL)

\* the call returns; the caller's lists hold what it appended
CallGenerateMethods ==
  /\ pc = "methods"
  /\ LET r == MethodsCall
     IN  /\ ~r.raised
         /\ lines' = r.output_lines
         /\ oncall_methods' = r.oncall_methods
         /\ ctors' = r.ctors
         /\ dtors' = r.dtors
  /\ pc' = "methods_done"
  /\ UNCHANGED <<inputs, _INDENT, source, ast_list, desired_class_names, i,
                 processed_class_names, stderr, stdout, ret>>

\* the call raises; the caller's lists hold what it appended before
CallGenerateMethodsRaises ==
  /\ pc = "methods"
  /\ LET r == MethodsCall
     IN  /\ r.raised
         /\ lines' = r.output_lines
         /\ oncall_methods' = r.oncall_methods
         /\ ctors' = r.ctors
         /\ dtors' = r.dtors
  /\ pc' = "methods_raised"
  /\ ret' = "AttributeError"
  /\ UNCHANGED <<inputs, _INDENT, source, ast_list, desired_class_names, i,
                 processed_class_names, stderr, stdout>>

NextMethods ==
  \/ CallGenerateMethods
  \/ CallGenerateMethodsRaises

SpecMethods == InitMethods /\ [][NextMethods]_vars

\* ======================================================= reading the output
\* The claims are stated over the text the program produced.  The operators
\* below read that text back; they use no operator of the generator.
Indices(ls, Test(_)) ==
  SelectSeq([k \in 1..Len(ls) |-> k], LAMBDA k : Test(ls[k]))

RECURSIVE Strip(_)
Strip(l) == IF l # <<>> /\ Head(l) = " " THEN Strip(Tail(l)) ELSE l

StartsWith(l, piece) == l # <<>> /\ Head(l) = piece

IsPrologLine(l) == StartsWith(l, "class ")
IsEpilogLine(l) == l = <<"};">>
IsPublicLine(l) == Strip(l) = <<"public:">>
IsMacroLine(l) == StartsWith(Strip(l), "MOCK_")
IsSignatureLine(l) == l # <<>> /\ l[Len(l)] = "));" /\ ~StartsWith(Strip(l), "ON_CALL(*this, ")
IsWarningLine(l) ==
  \E k \in 1..3 : Strip(l) = WarningComment[k]
IsNamespaceOpen(l) == StartsWith(l, "namespace ")
IsNamespaceClose(l) == StartsWith(l, "}  // namespace ")

\* the member functions the claims call virtual methods
HasFlag(m, flag) == m.kind = "Function" /\ flag \in m.modifiers

IsVirtualMethod(m) ==
  /\ HasFlag(m, FUNCTION_VIRTUAL) \/ HasFlag(m, FUNCTION_PURE_VIRTUAL)
  /\ ~HasFlag(m, FUNCTION_CTOR)
  /\ ~HasFlag(m, FUNCTION_DTOR)

VirtualMethods(body) == SelectSeq(body, IsVirtualMethod)

\* the class nodes the claims call processed
ToBeProcessed(node) ==
  /\ node.kind = "Class"
  /\ node.body # <<>>
  /\ (desired_class_names = {} \/ node.name \in desired_class_names)

\* the nodes the loop has passed
Passed == SubSeq(ast_list, 1, i - 1)

ProcessedNodes == SelectSeq(Passed, ToBeProcessed)

MockName(name) == IF _PARTIAL THEN <<"PartialMock", name>> ELSE <<"Mock", name>>

PrologOf(name) == <<"class ">> \o MockName(name) \o <<" : public ", name, " {">>

\* _GenerateMocks has returned its lines
Returned == pc = "write"

\* the k-th class of the output: from its prolog line to its epilog line
PrologAt == Indices(lines, IsPrologLine)
EpilogAt == Indices(lines, IsEpilogLine)
ClassText(k) == SubSeq(lines, PrologAt[k], EpilogAt[k])

WellFormedClasses ==
  /\ Len(PrologAt) = Len(ProcessedNodes)
  /\ Len(EpilogAt) = Len(ProcessedNodes)
  /\ \A k \in 1..Len(ProcessedNodes) :
       /\ lines[PrologAt[k]] = PrologOf(ProcessedNodes[k].name)
       /\ PrologAt[k] < EpilogAt[k]
       /\ (k < Len(ProcessedNodes) => EpilogAt[k] < PrologAt[k + 1])

\* ================================================================== claims

\* C1: every processed class without a virtual method (constructors and
\* destructors aside) has its prolog line and its '};' line in the output
\* and no 'public:' label line between them, wherever it stands in the
\* source, with or without a namespace, in either mode.
C1_NoLabelWithoutVirtualMethods ==
  Returned =>
    /\ WellFormedClasses
    /\ \A k \in 1..Len(ProcessedNodes) :
         VirtualMethods(ProcessedNodes[k].body) = <<>> =>
           \A n \in 1..Len(ClassText(k)) : ~IsPublicLine(ClassText(k)[n])

\* C4: a class node is processed exactly when its body is non-empty and
\* either no filter was given or its name is a filter: the prolog lines of
\* the buffer are those of the passed nodes that qualify, once each and in
\* source order, and the processed names are their names.
C4_ProcessedExactlySelected ==
  pc \in {"loop", "write"} =>
    /\ [k \in 1..Len(PrologAt) |-> lines[PrologAt[k]]]
         = [k \in 1..Len(ProcessedNodes) |-> PrologOf(ProcessedNodes[k].name)]
    /\ processed_class_names
         = {ProcessedNodes[k].name : k \in 1..Len(ProcessedNodes)}

C4_Witness ==
  /\ Returned
  /\ desired_class_names = {"A", "Z"}
  /\ Len(ast_list) = 2
  /\ ast_list[1].kind = "Class" /\ ast_list[1].name = "B" /\ ast_list[1].body # <<>>
  /\ ast_list[2].kind = "Class" /\ ast_list[2].name = "A" /\ ast_list[2].body # <<>>
  /\ Len(PrologAt) = 1

\* the position of a class name in the order of Python's string comparison
Rank(name) == CHOOSE k \in 1..Len(NameOrder) : NameOrder[k] = name

\* the names a 'Class(es) not found' message lists, in the order listed
ListedNames(msg) ==
  SelectSeq(SubSeq(msg, 4, Len(msg) - 1), LAMBDA piece : piece # ", ")

IsIndentMessage(msg) == StartsWith(msg, "Unable to use indent of ")

\* what was written to the error stream once main had dealt with INDENT
Diagnosed == SelectSeq(stderr, LAMBDA msg : ~IsIndentMessage(msg))

IsNotFoundMessage(msg) == StartsWith(msg, "Class(es) not found in ")
IsNoClassMessage(msg) == StartsWith(msg, "No class found in ")

\* C5: after the loop, with filters the 'Class(es) not found' diagnostic is
\* written exactly when a requested name was not processed; it lists the
\* unprocessed requested names, each once, in sorted order, and the output
\* has no class for a listed name.  Without filters and without a processed
\* class 'No class found' is written and the output is empty.  Otherwise
\* nothing is written.
C5_Diagnostics ==
  Returned =>
    LET missing == desired_class_names \ processed_class_names
    IN  IF desired_class_names # {} /\ missing # {}
          THEN /\ Len(Diagnosed) = 1
               /\ IsNotFoundMessage(Diagnosed[1])
               /\ LET listed == ListedNames(Diagnosed[1])
                  IN  /\ {listed[k] : k \in 1..Len(listed)} = missing
                      /\ Len(listed) = Cardinality(missing)
                      /\ \A k \in 1..Len(listed) - 1 :
                           Rank(listed[k]) < Rank(listed[k + 1])
                      /\ \A k \in 1..Len(listed) : \A n \in 1..Len(lines) :
                           lines[n] # PrologOf(listed[k])
        ELSE IF desired_class_names = {} /\ processed_class_names = {}
          THEN /\ Len(Diagnosed) = 1
               /\ IsNoClassMessage(Diagnosed[1])
               /\ lines = <<>>
        ELSE Diagnosed = <<>>

C5_Witness ==
  /\ Returned
  /\ desired_class_names = {"A", "Z"}
  /\ processed_class_names = {"A"}
  /\ Len(Diagnosed) = 1
  /\ ListedNames(Diagnosed[1]) = <<"Z">>
  /\ lines # <<>>

\* C6: in a partial-mode run the delegateMethodCallsToParent body emitted
\* for a class holds exactly the ON_CALL statements of that class's own
\* virtual methods, and the constructor and destructor texts emitted for a
\* class are those of its own constructors and destructors, whatever was
\* processed before it.
OwnLists(node) ==
  GenerateMethods(<<>>, <<>>, <<>>, <<>>, node, MockName(node.name), TRUE)

C6_AccumulatorsPerClass ==
  (Returned /\ _PARTIAL) =>
    /\ WellFormedClasses
    /\ \A k \in 1..Len(ProcessedNodes) :
         LET own == OwnLists(ProcessedNodes[k])
             text == ClassText(k)
             n == Len(text)
         IN  /\ n >= 6
             /\ text[n - 5] = DefaultMockConstructor(own.oncall_methods)
             /\ text[n - 3] = Join(own.ctors, <<linesep, linesep>>)
             /\ text[n - 1] = Join(own.dtors, <<linesep, linesep>>)

\* which stage main reached, read off its variables
ParserFailed == \E k \in 1..Len(stderr) : stderr[k] = ParserMessage
GeneratedWritten == \E k \in 1..Len(stdout) : stdout[k] # HelpText
NothingGenerated ==
  /\ lines = <<>>
  /\ processed_class_names = {}
  /\ i = 1
  /\ ~GeneratedWritten

\* C7: main writes generated text to standard output only when the file was
\* read and the parser completed.  An unreadable file makes main return 1
\* before the parser and any generation; a parser exception is caught,
\* _GenerateMocks is not called, nothing is written to standard output and
\* main ends without a non-zero value.  (When filter() returns an iterator
\* the parser runs inside the loop of _GenerateMocks, outside the try
\* block, and its exception leaves main.)
C7_MainErrorPaths ==
  /\ source = "None" =>
       /\ pc = "done" /\ ret = "1"
       /\ ast_list = <<>> /\ ~ParserFailed
       /\ NothingGenerated
  /\ ParserFailed =>
       /\ pc = "done" /\ ret = "None"
       /\ NothingGenerated /\ stdout = <<>>
  /\ GeneratedWritten =>
       /\ source = "text" /\ ~ParserFailed
       /\ pc = "done" /\ ret = "None"
       /\ stdout = <<Join(lines, <<"\n">>)>>

\* the stack of open namespaces after the first n lines; ok is FALSE once a
\* closing line does not match the innermost open namespace
RECURSIVE NamespaceStack(_, _)
NamespaceStack(ls, n) ==
  IF n = 0 THEN [ok |-> TRUE, open |-> <<>>]
  ELSE
    LET before == NamespaceStack(ls, n - 1)
        l == ls[n]
    IN  IF ~before.ok THEN before
        ELSE IF IsNamespaceOpen(l)
          THEN [before EXCEPT !.open = Append(@, l[2])]
        ELSE IF IsNamespaceClose(l)
          THEN IF before.open # <<>> /\ before.open[Len(before.open)] = l[2]
                 THEN [before EXCEPT !.open = SubSeq(@, 1, Len(@) - 1)]
                 ELSE [before EXCEPT !.ok = FALSE]
        ELSE before

RECURSIVE SumLen(_)
SumLen(nodes) ==
  IF nodes = <<>> THEN 0 ELSE Len(Head(nodes).namespace) + SumLen(Tail(nodes))

\* C9: every processed class is wrapped in its namespace chain: its prolog
\* and epilog lie inside exactly the namespaces of its path, opened in path
\* order and closed in reverse order, so the namespace lines of the whole
\* output are balanced and properly nested; a class without a namespace
\* adds no namespace line.
C9_NamespacesBalanced ==
  pc \in {"loop", "write"} =>
    /\ WellFormedClasses
    /\ NamespaceStack(lines, Len(lines)) = [ok |-> TRUE, open |-> <<>>]
    /\ \A k \in 1..Len(ProcessedNodes) :
         /\ NamespaceStack(lines, PrologAt[k]).open = ProcessedNodes[k].namespace
         /\ NamespaceStack(lines, EpilogAt[k]).open = ProcessedNodes[k].namespace
    /\ Len(Indices(lines, IsNamespaceOpen)) = SumLen(ProcessedNodes)
    /\ Len(Indices(lines, IsNamespaceClose)) = SumLen(ProcessedNodes)

C9_Witness ==
  /\ Returned
  /\ Len(ProcessedNodes) = 2
  /\ ProcessedNodes[1].namespace = <<"n1", "n2">>
  /\ ProcessedNodes[2].namespace = <<>>
  /\ Len(Indices(lines, IsNamespaceClose)) = 2

\* ------------------------------------ claims about _GenerateMethods alone
MethodsReturned == pc = "methods_done"

\* the call has ended, by returning or by raising
MethodsEnded == pc \in {"methods_done", "methods_raised"}

TheBody == ast_list[1].body

MacroAt == Indices(lines, IsMacroLine)
SignatureAt == Indices(lines, IsSignatureLine)

\* C2: one mock-macro invocation (the MOCK_ line followed by its signature
\* line) for each member that is a function with the virtual or the
\* pure-virtual flag and neither the constructor nor the destructor flag, in
\* declaration order, with the method's name and parameter count, and no
\* invocation for any other member.  (A call that raises in partial mode
\* has emitted the invocations of the methods before the raising member
\* only.)
C2_OneInvocationPerVirtualMethod ==
  MethodsEnded =>
    LET vm == VirtualMethods(TheBody)
    IN  /\ Len(MacroAt) = Len(vm)
        /\ Len(SignatureAt) = Len(vm)
        /\ \A k \in 1..Len(vm) :
             LET macro == Strip(lines[MacroAt[k]])
             IN  /\ SignatureAt[k] = MacroAt[k] + 1
                 /\ Len(macro) = 7
                 /\ macro[4] = Str(Len(vm[k].parameters))
                 /\ macro[6] = vm[k].name

\* C3: the macro of an invocation is MOCK_CONST_METHOD<k> exactly when the
\* method has the const flag and MOCK_METHOD<k> otherwise, k being the
\* method's parameter count; neither the return type's qualifiers nor the
\* other members matter.  The emitted invocations are those of the first
\* virtual methods of the body, all of them when the call returns.
C3_ConstMacroIffConstMethod ==
  MethodsEnded =>
    LET vm == VirtualMethods(TheBody)
    IN  /\ Len(MacroAt) <= Len(vm)
        /\ (MethodsReturned => Len(MacroAt) = Len(vm))
        /\ \A k \in 1..Len(MacroAt) :
             SubSeq(Strip(lines[MacroAt[k]]), 1, 4)
               = <<"MOCK_",
                   IF FUNCTION_CONST \in vm[k].modifiers THEN "CONST_" ELSE "",
                   "METHOD",
                   Str(Len(vm[k].parameters))>>

C3_Witness ==
  /\ MethodsReturned
  /\ Len(TheBody) = 2
  /\ TheBody[1].modifiers = {FUNCTION_VIRTUAL, FUNCTION_CONST}
  /\ TheBody[1].return_type = Void
  /\ TheBody[2].modifiers = {FUNCTION_VIRTUAL}
  /\ TheBody[2].return_type = ConstRetPtr
  /\ Len(MacroAt) = 2
  /\ Strip(lines[MacroAt[1]])[2] = "CONST_"
  /\ Strip(lines[MacroAt[2]])[2] = ""

TemplateArgCount(m) ==
  IF m.return_type = <<>> THEN 0 ELSE Len(m.return_type[1].templated_types)

RECURSIVE LinesFor(_)
LinesFor(vm) ==
  IF vm = <<>> THEN 0
  ELSE (IF TemplateArgCount(Head(vm)) > 1 THEN 5 ELSE 2) + LinesFor(Tail(vm))

\* C8: the three-line warning comment is appended for a virtual method
\* exactly when its return type has more than one template argument, and
\* then stands immediately before that method's two invocation lines; a
\* method with at most one template argument appends its two invocation
\* lines only.  (A call that raises in partial mode has appended nothing
\* for the virtual methods from the raising member on.)
C8_WarningIffSeveralTemplateArgs ==
  MethodsEnded =>
    LET vm == VirtualMethods(TheBody)
    IN  /\ Len(MacroAt) = Len(vm)
        /\ \A k \in 1..Len(vm) :
             /\ MacroAt[k] = LinesFor(SubSeq(vm, 1, k)) - 1
             /\ IsSignatureLine(lines[MacroAt[k] + 1])
             /\ TemplateArgCount(vm[k]) > 1 =>
                  [n \in 1..3 |-> lines[MacroAt[k] - 4 + n]]
                    = [n \in 1..3 |-> Spaces(_INDENT) \o WarningComment[n]]
        /\ Len(Indices(SubSeq(lines, 1, LinesFor(vm)), IsWarningLine))
             = 3 * Cardinality({k \in 1..Len(vm) : TemplateArgCount(vm[k]) > 1})
        /\ Len(Indices(lines, IsWarningLine))
             = Len(Indices(SubSeq(lines, 1, LinesFor(vm)), IsWarningLine))
        /\ (~_PARTIAL => Len(lines) = LinesFor(vm))

\* C10: _GenerateMethods has no error condition: a body on which it
\* completes in plain mode it also completes on in partial mode, data
\* members and virtual methods without a return type included.
PlainModeCompletes ==
  ~GenerateMethods(<<>>, <<>>, <<>>, <<>>, ast_list[1],
                   <<"Mock", ast_list[1].name>>, FALSE).raised

C10_PartialModeCompletes ==
  (pc = "methods_raised" /\ _PARTIAL) => ~PlainModeCompletes

====
